---- MODULE Spec2Model ----
(***************************************************************************)
(* Model of tastytrade_sdk/market_data/subscription.py: the LoopThread     *)
(* periodic task runner and the Subscription protocol engine (handshake,   *)
(* auth wait, keepalive, receive cycle, compact feed event decoders).      *)
(*                                                                         *)
(* Python list index j is TLA+ sequence index j + 1.                       *)
(***************************************************************************)
EXTENDS Integers, Sequences, FiniteSets, TLC

VARIABLES
    ctor,              \* constructor arguments: [handlers, streamer_symbols]
    pc,                \* caller thread: position inside __init__/open()/close()
    raised,            \* exception raised by the caller's last finished call
    on,                \* self.__on_quote/__on_candle/__on_greeks: kinds with a handler
    websocket,         \* self.__websocket: "None", "OPEN" or "CLOSED"
    receive_thread,    \* self.__receive_thread: 0 = attribute not set, else thread id
    keepalive_thread,  \* self.__keepalive_thread: 0 = attribute not set, else thread id
    is_authorized,     \* self.__is_authorized
    threads,           \* every LoopThread ever constructed, by thread id
    message,           \* frame read by __receive and not yet dispatched
    fault,             \* text of the StreamerException that left the receive thread
    inbound,           \* frames the server has sent and the client has not read
    sent,              \* frames written to the socket, in order
    calls,             \* handler invocations, in order
    processed,         \* history: the frames __receive has dispatched, in order
    openState,         \* history: open() is "none", "running", "returned" or "raised"
    closeLog,          \* history: one entry per finished close() call
    doomed             \* history: an ERROR frame was processed, or the connection
                       \* was closed, when no AUTHORIZED had been processed

vars == <<ctor, pc, raised, on, websocket, receive_thread, keepalive_thread,
          is_authorized, threads, message, fault, inbound, sent, calls,
          processed, openState, closeLog, doomed>>

(***************************************************************************)
(* Bounds                                                                  *)
(***************************************************************************)
MaxFrames == 2
MaxKeepalives == 1
MaxCloses == 2
MaxRecords == 2
MaxTimeout == 31
MaxLate == 2

Kinds == {"quote", "candle", "greeks"}

(***************************************************************************)
(* Symbol translator (external collaborator)                               *)
(***************************************************************************)
FeedSymbols == {"fA", "fB"}

get_original_symbol(s) == IF s = "fA" THEN "A" ELSE "B"

StreamerSymbolChoices == {<<>>, <<"fA">>, <<"fA", "fB">>, <<"fB", "fA">>}

(***************************************************************************)
(* Wire frames, inbound                                                    *)
(***************************************************************************)
NoData == <<"", <<>>>>

Frame(type, t, state, data, error, msg) ==
    [type |-> type, keepaliveTimeout |-> t, state |-> state, data |-> data,
     error |-> error, message |-> msg]

NoMessage == Frame("", 0, "", NoData, "", "")

SetupFrame(t) == Frame("SETUP", t, "", NoData, "", "")
AuthStateFrame(s) == Frame("AUTH_STATE", 0, s, NoData, "", "")
FeedDataFrame(kind, arr) == Frame("FEED_DATA", 0, "", <<kind, arr>>, "", "")
ErrorFrame(e, m) == Frame("ERROR", 0, "", NoData, e, m)
OtherFrame == Frame("KEEPALIVE", 0, "", NoData, "", "")

(***************************************************************************)
(* Compact feed events: flat arrays of whole records laid back to back.    *)
(* Every slot of a record holds a value of its own (base + offset), the    *)
(* feed symbol sits at offset 1.                                           *)
(***************************************************************************)
Bases == {100, 200}

Stride(width, sym, base) == [j \in 1..width |-> IF j = 2 THEN sym ELSE base + (j - 1)]

StrideChoices(width) == {Stride(width, s, b) : s \in FeedSymbols, b \in Bases}

RECURSIVE Arrays(_, _)
Arrays(width, n) ==
    IF n = 0 THEN {<<>>}
    ELSE Arrays(width, n - 1)
         \cup {a \o r : a \in Arrays(width, n - 1), r \in StrideChoices(width)}

(***************************************************************************)
(* Event decoders                                                          *)
(***************************************************************************)
EmptyDict == <<>>

DictSet(d, k, v) == [s \in DOMAIN d \cup {k} |-> IF s = k THEN v ELSE d[s]]

RECURSIVE QuoteLoop(_, _, _)
QuoteLoop(data, i, quote) ==
    IF i >= Len(data) THEN quote
    ELSE LET event_symbol == data[i + 1 + 1]
             original_symbol == get_original_symbol(event_symbol)
         IN QuoteLoop(data, i + 13,
                DictSet(quote, original_symbol,
                    [eventSymbol |-> event_symbol,
                     bidPrice |-> data[i + 7 + 1],
                     askPrice |-> data[i + 11 + 1]]))

handle_compact_quote(data) == QuoteLoop(data, 0, EmptyDict)

RECURSIVE CandleLoop(_, _, _)
CandleLoop(data, i, candle) ==
    IF i >= Len(data) THEN candle
    ELSE LET event_symbol == data[i + 1 + 1]
             original_symbol == get_original_symbol(event_symbol)
         IN CandleLoop(data, i + 18,
                DictSet(candle, original_symbol,
                    [eventSymbol |-> event_symbol,
                     Open |-> data[i + 8 + 1],
                     High |-> data[i + 9 + 1],
                     Low |-> data[i + 10 + 1],
                     Close |-> data[i + 11 + 1],
                     Volumen |-> data[i + 12 + 1]]))

handle_compact_candle(data) == CandleLoop(data, 0, EmptyDict)

RECURSIVE GreeksLoop(_, _, _)
GreeksLoop(data, i, greeks) ==
    IF i >= Len(data) THEN greeks
    ELSE LET event_symbol == data[i + 1 + 1]
             original_symbol == get_original_symbol(event_symbol)
         IN GreeksLoop(data, i + 14,
                DictSet(greeks, original_symbol,
                    [eventSymbol |-> event_symbol,
                     Price |-> data[i + 8 + 1],
                     Volatility |-> data[i + 9 + 1],
                     Delta |-> data[i + 10 + 1],
                     Gamma |-> data[i + 11 + 1],
                     Theta |-> data[i + 12 + 1],
                     Rho |-> data[i + 13 + 1],
                     Vega |-> data[i + 13 + 1]]))

handle_compact_greeks(data) == GreeksLoop(data, 0, EmptyDict)

\* only Quote events are dispatched
handle_feed_event_QuoteOnly(event) ==
    IF event[1] = "Quote" /\ "quote" \in on
    THEN <<[handler |-> "quote", event |-> event[2], data |-> handle_compact_quote(event[2])]>>
    ELSE <<>>

\* __handle_feed_event: the handler invocations one feed event causes
handle_feed_event(event) ==
    LET event_type == event[1] IN
    IF event_type = "Quote" /\ "quote" \in on
    THEN <<[handler |-> "quote", event |-> event[2], data |-> handle_compact_quote(event[2])]>>
    ELSE IF event_type = "Candle" /\ "candle" \in on
    THEN <<[handler |-> "candle", event |-> event[2], data |-> handle_compact_candle(event[2])]>>
    ELSE IF event_type = "Greeks" /\ "greeks" \in on
    THEN <<[handler |-> "greeks", event |-> event[2], data |-> handle_compact_greeks(event[2])]>>
    ELSE <<>>

(***************************************************************************)
(* LoopThread                                                              *)
(***************************************************************************)
\* __init__ without `self.start()`: the thread is constructed and never runs
LoopThread_NotStarted(activity, timeout_seconds) ==
    [activity |-> activity, running |-> TRUE,
     timeout_seconds |-> timeout_seconds, pc |-> "new", late |-> 0]

\* __init__: the thread is constructed running and started at once
LoopThread(activity, timeout_seconds) ==
    [activity |-> activity, running |-> TRUE,
     timeout_seconds |-> timeout_seconds, pc |-> "check", late |-> 0]

\* an exception swallowed by the loop: the thread carries on
AfterActivity_Swallow(threw, timeout_seconds) ==
    IF timeout_seconds = 0 THEN "check" ELSE "pause"

\* run: where the loop stands after one call of the activity; an exception is
\* not caught and ends the thread; without a delay __pause returns at once
\* and the loop test comes next
AfterActivity(threw, timeout_seconds) ==
    IF threw THEN "dead"
    ELSE IF timeout_seconds = 0 THEN "check" ELSE "pause"

\* stop leaves the flag as it is
Stopped_Noop(ths, id) == ths

\* stop
Stopped(ths, id) == [ths EXCEPT ![id].running = FALSE]

KeepalivesSent == Cardinality({i \in DOMAIN sent : sent[i].type = "KEEPALIVE"})

\* the loop never looks at the flag
LoopTest_Always(running) == "call"

\* run, `while self.__running`: the activity is called next, or the thread ends
LoopTest(running) == IF running THEN "call" ELSE "done"

\* run, loop test; a keepalive thread on an open connection goes round only
\* while fewer than MaxKeepalives frames were sent
LoopCheck(id) ==
    /\ id \in DOMAIN threads
    /\ threads[id].pc = "check"
    /\ (threads[id].running /\ threads[id].activity = "keepalive"
            /\ websocket = "OPEN")
           => KeepalivesSent < MaxKeepalives
    /\ threads' = [threads EXCEPT ![id].pc = LoopTest(threads[id].running)]
    /\ UNCHANGED <<doomed, ctor, pc, raised, on, websocket, receive_thread,
                   keepalive_thread, is_authorized, message, fault, inbound,
                   sent, calls, processed, openState, closeLog>>

\* run, `self.__activity()`: the call itself, after the loop test; `late`
\* counts, up to MaxLate, the calls made when stop() had already been requested
LoopCall(id) ==
    /\ id \in DOMAIN threads
    /\ threads[id].pc = "call"
    /\ threads' = [threads EXCEPT
                      ![id].pc = "activity",
                      ![id].late = IF threads[id].running \/ @ = MaxLate
                                   THEN @ ELSE @ + 1]
    /\ UNCHANGED <<doomed, ctor, pc, raised, on, websocket, receive_thread,
                   keepalive_thread, is_authorized, message, fault, inbound,
                   sent, calls, processed, openState, closeLog>>

\* __pause with a delay: spins until the delay has elapsed or the thread was
\* stopped; either way the loop test comes next
LoopPause(id) ==
    /\ id \in DOMAIN threads
    /\ threads[id].pc = "pause"
    /\ threads' = [threads EXCEPT ![id].pc = "check"]
    /\ UNCHANGED <<doomed, ctor, pc, raised, on, websocket, receive_thread,
                   keepalive_thread, is_authorized, message, fault, inbound,
                   sent, calls, processed, openState, closeLog>>

(***************************************************************************)
(* Subscription: helpers                                                   *)
(***************************************************************************)
\* only the quote handler is tested
HasHandler_QuoteOnly(handlers) == "quote" \in handlers

\* __init__, the handler test
HasHandler(handlers) ==
    "quote" \in handlers \/ "candle" \in handlers \/ "greeks" \in handlers

\* every kind is subscribed, handler or not
subscription_types_AllKinds(handlers) == <<"Quote", "Candle", "Greeks">>

\* open: subscription_types
subscription_types(handlers) ==
    (IF "quote" \in handlers THEN <<"Quote">> ELSE <<>>)
    \o (IF "candle" \in handlers THEN <<"Candle">> ELSE <<>>)
    \o (IF "greeks" \in handlers THEN <<"Greeks">> ELSE <<>>)

\* itertools.product of two sequences, the first varying slowest
product(S, T) ==
    [k \in 1..(Len(S) * Len(T)) |->
        <<S[((k - 1) \div Len(T)) + 1], T[((k - 1) % Len(T)) + 1]>>]

\* open: subscriptions
subscriptions(symbols, handlers) ==
    LET pairs == product(symbols, subscription_types(handlers))
    IN [k \in DOMAIN pairs |-> [symbol |-> pairs[k][1], type |-> pairs[k][2]]]

\* the advertised timeout taken as the delay, not halved
keepalive_interval_NoHalf(keepaliveTimeout) == keepaliveTimeout

\* __receive: keepalive_interval
keepalive_interval(keepaliveTimeout) == keepaliveTimeout \div 2

\* StreamerException.__init__
StreamerException(error, msg) == error \o ": " \o msg

\* the flag latches: once true it stays true
is_authorized_after_Latch(msg, flag) ==
    flag \/ (msg.type = "AUTH_STATE" /\ msg.state = "AUTHORIZED")

\* __receive: self.__is_authorized after the dispatch of a frame
is_authorized_after(msg, flag) ==
    IF msg.type = "AUTH_STATE" THEN msg.state = "AUTHORIZED" ELSE flag

\* open() does not wait for the flag
AuthWaitDone_NoWait == TRUE

\* open: the test that ends the auth wait
AuthWaitDone == is_authorized

\* __send: the frame written; a closed connection makes send raise
Sent(by, type, add) == Append(sent, [type |-> type, by |-> by, add |-> add])

\* history of open()'s chances: whether, with these frames processed and the
\* socket in this state, the receive thread has ended on an ERROR frame or
\* the connection is closed while no AUTHORIZED has been processed
DoomedAfter(was, frames, ws) ==
    \/ was
    \/ /\ \A i \in DOMAIN frames :
              ~(frames[i].type = "AUTH_STATE" /\ frames[i].state = "AUTHORIZED")
       /\ \/ \E i \in DOMAIN frames : frames[i].type = "ERROR"
          \/ ws = "CLOSED"

Snapshot(ths, ws, auth) ==
    [running |-> [i \in DOMAIN ths |-> ths[i].running],
     websocket |-> ws, is_authorized |-> auth]

(***************************************************************************)
(* Subscription: caller thread                                             *)
(***************************************************************************)
\* __init__
Construct ==
    /\ pc = "new"
    /\ IF HasHandler(ctor.handlers)
       THEN /\ on' = ctor.handlers
            /\ pc' = "idle"
            /\ raised' = "none"
       ELSE /\ on' = on
            /\ pc' = "failed"
            /\ raised' = "InvalidArgument"
    /\ UNCHANGED <<doomed, ctor, websocket, receive_thread, keepalive_thread,
                   is_authorized, threads, message, fault, inbound, sent,
                   calls, processed, openState, closeLog>>

\* open: connect
OpenConnect ==
    /\ pc = "idle"
    /\ openState = "none"
    /\ openState' = "running"
    /\ websocket' = "OPEN"
    /\ raised' = "none"
    /\ pc' = "open_receive_thread"
    /\ UNCHANGED <<doomed, ctor, on, receive_thread, keepalive_thread, is_authorized,
                   threads, message, fault, inbound, sent, calls, processed,
                   closeLog>>

\* open: start the receive thread
OpenStartReceive ==
    /\ pc = "open_receive_thread"
    /\ threads' = Append(threads, LoopThread("receive", 0))
    /\ receive_thread' = Len(threads) + 1
    /\ pc' = "open_setup"
    /\ UNCHANGED <<doomed, ctor, raised, on, websocket, keepalive_thread,
                   is_authorized, message, fault, inbound, sent, calls,
                   processed, openState, closeLog>>

\* one __send of open(): on a closed connection the send raises out of open()
OpenSend(type, add, next) ==
    /\ IF websocket = "OPEN"
       THEN /\ sent' = Sent(0, type, add)
            /\ pc' = next
            /\ raised' = raised
            /\ openState' = IF next = "idle" THEN "returned" ELSE openState
       ELSE /\ sent' = sent
            /\ pc' = "idle"
            /\ raised' = "ConnectionClosed"
            /\ openState' = "raised"
    /\ UNCHANGED <<doomed, ctor, on, websocket, receive_thread, keepalive_thread,
                   is_authorized, threads, message, fault, inbound, calls,
                   processed, closeLog>>

\* open: the caller enters __send; the frame is written when the send ends
InsideOf ==
    [open_setup |-> "open_setup_send", open_auth |-> "open_auth_send",
     open_channel |-> "open_channel_send", open_feed |-> "open_feed_send"]

OpenEnterSend ==
    /\ pc \in DOMAIN InsideOf
    /\ pc' = InsideOf[pc]
    /\ UNCHANGED <<doomed, ctor, raised, on, websocket, receive_thread,
                   keepalive_thread, is_authorized, threads, message, fault,
                   inbound, sent, calls, processed, openState, closeLog>>

OpenSendSetup ==
    /\ pc = "open_setup_send"
    /\ OpenSend("SETUP", <<>>, "open_auth")

OpenSendAuth ==
    /\ pc = "open_auth_send"
    /\ OpenSend("AUTH", <<>>, "open_wait")

\* open: the auth wait
OpenWait ==
    /\ pc = "open_wait"
    /\ AuthWaitDone
    /\ pc' = "open_channel"
    /\ UNCHANGED <<doomed, ctor, raised, on, websocket, receive_thread,
                   keepalive_thread, is_authorized, threads, message, fault,
                   inbound, sent, calls, processed, openState, closeLog>>

OpenSendChannel ==
    /\ pc = "open_channel_send"
    /\ OpenSend("CHANNEL_REQUEST", <<>>, "open_feed")

\* open: the last send, then `return self`
OpenSendFeed ==
    /\ pc = "open_feed_send"
    /\ OpenSend("FEED_SUBSCRIPTION",
                subscriptions(ctor.streamer_symbols, on), "idle")

\* close: `if self.__keepalive_thread: self.__keepalive_thread.stop()`; the
\* class body only annotates __keepalive_thread, so reading it before
\* __receive has assigned it raises AttributeError out of close()
CloseKeepalive ==
    /\ pc = "idle"
    /\ Len(closeLog) < MaxCloses
    /\ IF keepalive_thread = 0
       THEN /\ raised' = "AttributeError"
            /\ pc' = "idle"
            /\ threads' = threads
            /\ closeLog' = Append(closeLog,
                   [raised |-> "AttributeError", open |-> openState,
                    state |-> Snapshot(threads, websocket, is_authorized)])
       ELSE /\ raised' = "none"
            /\ pc' = "close_receive"
            /\ threads' = Stopped(threads, keepalive_thread)
            /\ closeLog' = closeLog
    /\ UNCHANGED <<doomed, ctor, on, websocket, receive_thread, keepalive_thread,
                   is_authorized, message, fault, inbound, sent, calls,
                   processed, openState>>

\* close: `if self.__receive_thread: self.__receive_thread.stop()`;
\* __receive_thread is only annotated in the class body as well
CloseReceive ==
    /\ pc = "close_receive"
    /\ IF receive_thread = 0
       THEN /\ raised' = "AttributeError"
            /\ pc' = "idle"
            /\ threads' = threads
            /\ closeLog' = Append(closeLog,
                   [raised |-> "AttributeError", open |-> openState,
                    state |-> Snapshot(threads, websocket, is_authorized)])
       ELSE /\ raised' = raised
            /\ pc' = "close_websocket"
            /\ threads' = Stopped(threads, receive_thread)
            /\ closeLog' = closeLog
    /\ UNCHANGED <<doomed, ctor, on, websocket, receive_thread, keepalive_thread,
                   is_authorized, message, fault, inbound, sent, calls,
                   processed, openState>>

\* close: `if self.__websocket: self.__websocket.close()`; frames not yet
\* read are dropped with the connection
CloseWebsocket ==
    /\ pc = "close_websocket"
    /\ websocket' = IF websocket = "None" THEN "None" ELSE "CLOSED"
    /\ inbound' = <<>>
    /\ pc' = "idle"
    /\ closeLog' = Append(closeLog,
           [raised |-> "none", open |-> openState,
            state |-> Snapshot(threads, websocket', is_authorized)])
    /\ UNCHANGED <<ctor, raised, on, receive_thread, keepalive_thread,
                   is_authorized, threads, message, fault, sent, calls,
                   processed, openState>>
    /\ doomed' = DoomedAfter(doomed, processed', websocket')

(***************************************************************************)
(* Subscription: receive thread                                            *)
(***************************************************************************)
\* __receive up to recv(): no socket, or a connection closed in an orderly
\* way (ConnectionClosedOK), returns; an open connection blocks for a frame
RxRecv(id) ==
    /\ id \in DOMAIN threads
    /\ threads[id].activity = "receive"
    /\ threads[id].pc = "activity"
    /\ message = NoMessage
    /\ websocket = "OPEN" => inbound # <<>>
    /\ IF websocket = "OPEN"
       THEN /\ message' = Head(inbound)
            /\ inbound' = Tail(inbound)
            /\ threads' = threads
       ELSE /\ message' = message
            /\ inbound' = inbound
            /\ threads' = [threads EXCEPT ![id].pc =
                              AfterActivity(FALSE, threads[id].timeout_seconds)]
    /\ UNCHANGED <<doomed, ctor, pc, raised, on, websocket, receive_thread,
                   keepalive_thread, is_authorized, fault, sent, calls,
                   processed, openState, closeLog>>

\* __receive after recv(): dispatch on the frame's type
RxDispatch(id) ==
    /\ id \in DOMAIN threads
    /\ threads[id].activity = "receive"
    /\ threads[id].pc = "activity"
    /\ message # NoMessage
    /\ message' = NoMessage
    /\ LET _type == message.type
           here == [threads EXCEPT ![id].pc =
                       AfterActivity(_type = "ERROR", threads[id].timeout_seconds)]
       IN /\ fault' = IF _type = "ERROR"
                      THEN StreamerException(message.error, message.message)
                      ELSE fault
          /\ threads' = IF _type = "SETUP"
                        THEN Append(here, LoopThread("keepalive",
                                 keepalive_interval(message.keepaliveTimeout)))
                        ELSE here
          /\ keepalive_thread' = IF _type = "SETUP" THEN Len(threads) + 1
                                 ELSE keepalive_thread
          /\ is_authorized' = is_authorized_after(message, is_authorized)
          /\ processed' = Append(processed, message)
          /\ calls' = IF _type = "FEED_DATA"
                      THEN calls \o handle_feed_event(message.data)
                      ELSE calls
    /\ UNCHANGED <<ctor, pc, raised, on, websocket, receive_thread, inbound,
                   sent, openState, closeLog>>
    /\ doomed' = DoomedAfter(doomed, processed', websocket')

(***************************************************************************)
(* Subscription: keepalive thread                                          *)
(***************************************************************************)
\* the keepalive lambda: __send('KEEPALIVE'), entered by LoopCall; the frame is
\* written when the send ends, on a closed connection the send raises and the
\* exception ends the thread
KeepaliveSend(id) ==
    /\ id \in DOMAIN threads
    /\ threads[id].activity = "keepalive"
    /\ threads[id].pc = "activity"
    /\ sent' = IF websocket = "OPEN" THEN Sent(id, "KEEPALIVE", <<>>) ELSE sent
    /\ threads' = [threads EXCEPT ![id].pc =
                      AfterActivity(websocket # "OPEN", threads[id].timeout_seconds)]
    /\ UNCHANGED <<doomed, ctor, pc, raised, on, websocket, receive_thread,
                   keepalive_thread, is_authorized, message, fault, inbound,
                   calls, processed, openState, closeLog>>

(***************************************************************************)
(* Server                                                                  *)
(***************************************************************************)
\* the server closes the connection in an orderly way
ServerClose ==
    /\ websocket = "OPEN"
    /\ websocket' = "CLOSED"
    /\ inbound' = <<>>
    /\ UNCHANGED <<ctor, pc, raised, on, receive_thread, keepalive_thread,
                   is_authorized, threads, message, fault, sent, calls,
                   processed, openState, closeLog>>
    /\ doomed' = DoomedAfter(doomed, processed', websocket')

(***************************************************************************)
(* Specifications                                                          *)
(***************************************************************************)
InitWith(handlerSets, symbolSeqs, frameSeqs) ==
    /\ ctor \in [handlers : handlerSets, streamer_symbols : symbolSeqs]
    /\ inbound \in frameSeqs
    /\ pc = "new"
    /\ raised = "none"
    /\ on = {}
    /\ websocket = "None"
    /\ receive_thread = 0
    /\ keepalive_thread = 0
    /\ is_authorized = FALSE
    /\ threads = <<>>
    /\ message = NoMessage
    /\ fault = ""
    /\ sent = <<>>
    /\ calls = <<>>
    /\ processed = <<>>
    /\ openState = "none"
    /\ closeLog = <<>>
    /\ doomed = FALSE

ThreadIds == 1..(MaxFrames + 1)

Next ==
    \/ Construct
    \/ OpenConnect
    \/ OpenStartReceive
    \/ OpenEnterSend
    \/ OpenSendSetup
    \/ OpenSendAuth
    \/ OpenWait
    \/ OpenSendChannel
    \/ OpenSendFeed
    \/ CloseKeepalive
    \/ CloseReceive
    \/ CloseWebsocket
    \/ \E id \in ThreadIds : LoopCheck(id)
    \/ \E id \in ThreadIds : LoopCall(id)
    \/ \E id \in ThreadIds : LoopPause(id)
    \/ \E id \in ThreadIds : RxRecv(id)
    \/ \E id \in ThreadIds : RxDispatch(id)
    \/ \E id \in ThreadIds : KeepaliveSend(id)
    \/ ServerClose

RECURSIVE SeqsUpTo(_, _)
SeqsUpTo(S, n) ==
    IF n = 0 THEN {<<>>}
    ELSE SeqsUpTo(S, n - 1)
         \cup {Append(q, x) : q \in SeqsUpTo(S, n - 1), x \in S}

\* inbound frames of the main specification
Frames ==
    {SetupFrame(30),
     AuthStateFrame("AUTHORIZED"), AuthStateFrame("UNAUTHORIZED"),
     FeedDataFrame("Quote", Stride(13, "fA", 100)),
     ErrorFrame("UNAUTHORIZED", "bad token")}

Init == InitWith({{"quote"}}, {<<"fA">>}, SeqsUpTo(Frames, MaxFrames))

Spec == Init /\ [][Next]_vars

\* the authorized flag: AUTH_STATE frames among frames of the other types,
\* one of them of a type the engine does not know
AuthFrames ==
    {SetupFrame(30),
     AuthStateFrame("AUTHORIZED"), AuthStateFrame("UNAUTHORIZED"),
     FeedDataFrame("Quote", Stride(13, "fA", 100)),
     OtherFrame}

InitAuth == InitWith({{"quote"}}, {<<"fA">>}, SeqsUpTo(AuthFrames, MaxFrames))

SpecAuth == InitAuth /\ [][Next]_vars

\* construction and the subscription request: every handler set and symbol
\* list against a server that completes the handshake
InitConstruct ==
    InitWith(SUBSET Kinds, StreamerSymbolChoices,
             {<<SetupFrame(30), AuthStateFrame("AUTHORIZED")>>})

SpecConstruct == InitConstruct /\ [][Next]_vars

\* the keepalive delay: every advertised timeout up to MaxTimeout
InitKeepalive ==
    InitWith({{"quote"}}, {<<"fA">>},
             {<<SetupFrame(t), AuthStateFrame("AUTHORIZED")>> : t \in 0..MaxTimeout})

SpecKeepalive == InitKeepalive /\ [][Next]_vars

\* feed event dispatch: every non-empty handler set against up to MaxFrames
\* FEED_DATA frames of the three kinds and of a kind the engine does not know
FeedFrames ==
    {FeedDataFrame("Quote", Stride(13, "fA", 100)),
     FeedDataFrame("Candle", Stride(18, "fA", 100)),
     FeedDataFrame("Greeks", Stride(14, "fA", 100)),
     FeedDataFrame("Trade", Stride(13, "fA", 100))}

InitDispatch ==
    InitWith(SUBSET Kinds \ {{}}, {<<"fA">>}, SeqsUpTo(FeedFrames, MaxFrames))

\* the decoders: one FEED_DATA frame of every kind and every array of up to
\* MaxRecords records, read by the receive thread of an engine with all
\* three handlers
InitDecode ==
    InitWith({Kinds}, {<<"fA">>},
             {<<FeedDataFrame("Quote", a)>> : a \in Arrays(13, MaxRecords)}
             \cup {<<FeedDataFrame("Candle", a)>> : a \in Arrays(18, MaxRecords)}
             \cup {<<FeedDataFrame("Greeks", a)>> : a \in Arrays(14, MaxRecords)})

NextDecode ==
    \/ Construct
    \/ OpenConnect
    \/ OpenStartReceive
    \/ \E id \in ThreadIds : LoopCheck(id)
    \/ \E id \in ThreadIds : LoopCall(id)
    \/ \E id \in ThreadIds : RxRecv(id)
    \/ \E id \in ThreadIds : RxDispatch(id)

SpecDispatch == InitDispatch /\ [][NextDecode]_vars

SpecDecode == InitDecode /\ [][NextDecode]_vars

\* scheduling: a call in progress on the caller thread goes on (calling
\* open() or close() at all is the caller's choice), and every started thread
\* is scheduled again and again; the server is under no obligation
FairFrames ==
    {SetupFrame(30),
     AuthStateFrame("AUTHORIZED"), AuthStateFrame("UNAUTHORIZED"),
     ErrorFrame("UNAUTHORIZED", "bad token")}

InitFair == InitWith({{"quote"}}, {<<"fA">>}, SeqsUpTo(FairFrames, MaxFrames))

CallerStep ==
    \/ OpenStartReceive
    \/ OpenEnterSend
    \/ OpenSendSetup
    \/ OpenSendAuth
    \/ OpenWait
    \/ OpenSendChannel
    \/ OpenSendFeed
    \/ CloseReceive
    \/ CloseWebsocket

ThreadStep(id) ==
    \/ LoopCheck(id)
    \/ LoopCall(id)
    \/ LoopPause(id)
    \/ RxRecv(id)
    \/ RxDispatch(id)
    \/ KeepaliveSend(id)

Fairness ==
    /\ WF_vars(CallerStep)
    /\ \A id \in ThreadIds : WF_vars(ThreadStep(id))

SpecFair == InitFair /\ [][Next]_vars /\ Fairness

(***************************************************************************)
(* Properties                                                              *)
(***************************************************************************)
Range(q) == {q[i] : i \in DOMAIN q}

IsCallerSend(e) == e.by = 0

IsSetup(f) == f.type = "SETUP"

IsKeepalive(t) == t.activity = "keepalive"

CallerSent == SelectSeq(sent, IsCallerSend)

OpenOrder == <<"SETUP", "AUTH", "CHANNEL_REQUEST", "FEED_SUBSCRIPTION">>

AuthorizedProcessed ==
    \E i \in DOMAIN processed :
        processed[i].type = "AUTH_STATE" /\ processed[i].state = "AUTHORIZED"

ErrorProcessed == \E i \in DOMAIN processed : processed[i].type = "ERROR"

\* C1: the caller thread's sends are, in order, a prefix of SETUP, AUTH,
\* CHANNEL_REQUEST, FEED_SUBSCRIPTION (KEEPALIVE sends of other threads may
\* lie between them), and CHANNEL_REQUEST or FEED_SUBSCRIPTION is on the
\* socket only if the receive thread has processed an AUTH_STATE frame with
\* state AUTHORIZED.
C1_SendOrder ==
    /\ Len(CallerSent) <= Len(OpenOrder)
    /\ \A i \in DOMAIN CallerSent : CallerSent[i].type = OpenOrder[i]
    /\ \A i \in DOMAIN sent :
           sent[i].type \in {"CHANNEL_REQUEST", "FEED_SUBSCRIPTION"}
               => AuthorizedProcessed

\* open() has returned after all four sends, with a KEEPALIVE among them
C1_Witness ==
    /\ openState = "returned"
    /\ Len(CallerSent) = 4
    /\ \E i \in DOMAIN sent :
           sent[i].type = "KEEPALIVE" /\ i < Len(sent)

\* C2: a keepalive thread exists only once a SETUP frame was processed, and
\* at no time do two keepalive threads of the engine exist.
C2_KeepaliveOnce ==
    LET alive == {i \in DOMAIN threads :
                     /\ threads[i].activity = "keepalive"
                     /\ threads[i].pc \notin {"done", "dead"}}
    IN /\ alive # {} => \E i \in DOMAIN processed : processed[i].type = "SETUP"
       /\ Cardinality(alive) <= 1

\* C3: no call of close() raises, whether open() never ran, ran partially or
\* ran to its end.
C3_CloseNeverRaises ==
    \A i \in DOMAIN closeLog : closeLog[i].raised = "none"

\* C8: an ERROR frame read by the receive cycle leaves the receive thread
\* with a fault made of the frame's error code and message, ends the thread,
\* and is the last frame ever dispatched: afterwards no handler is invoked,
\* the authorized flag does not change and no keepalive thread is started.
C8_ErrorIsFatal ==
    /\ [](\A i \in DOMAIN processed :
              processed[i].type = "ERROR" =>
                  /\ i = Len(processed)
                  /\ fault = processed[i].error \o ": " \o processed[i].message
                  /\ threads[receive_thread].pc = "dead")
    /\ [][ErrorProcessed =>
              /\ UNCHANGED <<doomed, calls, is_authorized, keepalive_thread, processed>>
              /\ Len(threads') = Len(threads)]_vars

\* the receive thread died on an ERROR frame while a later frame is waiting
\* on the open connection
C8_Witness ==
    /\ ErrorProcessed
    /\ threads[receive_thread].pc = "dead"
    /\ fault = "UNAUTHORIZED: bad token"
    /\ websocket = "OPEN"
    /\ inbound # <<>>

\* C10: when close() is called twice on an engine whose open() has returned,
\* the second call raises nothing and leaves the run flags, the socket and
\* the authorized flag as the first call left them.
C10_CloseIdempotent ==
    (Len(closeLog) >= 2 /\ closeLog[1].open = "returned") =>
        /\ closeLog[2].raised = "none"
        /\ closeLog[2].state = closeLog[1].state

KindString(k) ==
    CASE k = "quote" -> "Quote"
      [] k = "candle" -> "Candle"
      [] k = "greeks" -> "Greeks"

\* C4: construction fails, with InvalidArgument, exactly when no handler is
\* given; a constructed engine holds the handlers given; and until open() is
\* called there is no socket, no thread and nothing sent.
C4_Construct ==
    /\ pc = "failed" <=> (pc # "new" /\ ctor.handlers = {})
    /\ pc = "failed" => raised = "InvalidArgument"
    /\ pc \notin {"new", "failed"} => on = ctor.handlers
    /\ (pc \in {"new", "failed"} \/ openState = "none") =>
           /\ websocket = "None"
           /\ threads = <<>>
           /\ receive_thread = 0
           /\ keepalive_thread = 0
           /\ sent = <<>>

\* construction with no handler has failed
C4_Witness ==
    /\ ctor.handlers = {}
    /\ pc = "failed"
    /\ raised = "InvalidArgument"

\* C5: the add list of a FEED_SUBSCRIPTION holds exactly the pairs of a feed
\* symbol of the translator and the event-kind string of a kind that has a
\* handler, each pair once.
C5_SubscriptionRequest ==
    \A i \in DOMAIN sent :
        sent[i].type = "FEED_SUBSCRIPTION" =>
            LET add == sent[i].add
                pairs == {[symbol |-> sym, type |-> KindString(k)] :
                             sym \in Range(ctor.streamer_symbols),
                             k \in ctor.handlers}
            IN /\ Range(add) = pairs
               /\ Len(add) = Cardinality(pairs)

\* a FEED_SUBSCRIPTION for two symbols and two of the three kinds went out
C5_Witness ==
    /\ Len(ctor.streamer_symbols) = 2
    /\ Cardinality(ctor.handlers) = 2
    /\ \E i \in DOMAIN sent :
           sent[i].type = "FEED_SUBSCRIPTION" /\ Len(sent[i].add) = 4

\* C6: the quote handler receives exactly N records for an array of N
\* stride-13 records, and record k has bidPrice = array[13k+7], askPrice =
\* array[13k+11] under the translation of array[13k+1].
C6_QuoteDecode ==
    \A c \in DOMAIN calls :
        calls[c].handler = "quote" =>
            LET array == calls[c].event
                N == Len(array) \div 13
            IN /\ Cardinality(DOMAIN calls[c].data) = N
               /\ \A k \in 0..(N - 1) :
                      LET symbol == get_original_symbol(array[13 * k + 1 + 1])
                      IN /\ symbol \in DOMAIN calls[c].data
                         /\ calls[c].data[symbol].bidPrice = array[13 * k + 7 + 1]
                         /\ calls[c].data[symbol].askPrice = array[13 * k + 11 + 1]

\* the record a decoder produced agrees with stride k of the array: the
\* record's feed symbol is the stride's, and each named field is present
\* with the value at its offset
RecordOfStride(record, array, width, k, offsets) ==
    /\ record.eventSymbol = array[width * k + 1 + 1]
    /\ \A name \in DOMAIN offsets :
           /\ name \in DOMAIN record
           /\ record[name] = array[width * k + offsets[name] + 1]

CandleOffsets == [Open |-> 8, High |-> 9, Low |-> 10, Close |-> 11, Volume |-> 12]

GreeksOffsets ==
    [Price |-> 8, Volatility |-> 9, Delta |-> 10, Gamma |-> 11, Theta |-> 12,
     Rho |-> 13, Vega |-> 13]

\* C7: every record handed to the candle handler carries Open, High, Low,
\* Close, Volume from offsets 8..12 of a stride of 18, every record handed to
\* the greeks handler carries Price, Volatility, Delta, Gamma, Theta, Rho,
\* Vega from offsets 8, 9, 10, 11, 12, 13, 13 of a stride of 14, and both
\* take the feed symbol from offset 1.
C7_CandleGreeksDecode ==
    \A c \in DOMAIN calls :
        LET array == calls[c].event
            data == calls[c].data
        IN /\ calls[c].handler = "candle" =>
                  \A symbol \in DOMAIN data :
                      \E k \in 0..((Len(array) \div 18) - 1) :
                          RecordOfStride(data[symbol], array, 18, k, CandleOffsets)
           /\ calls[c].handler = "greeks" =>
                  \A symbol \in DOMAIN data :
                      \E k \in 0..((Len(array) \div 14) - 1) :
                          RecordOfStride(data[symbol], array, 14, k, GreeksOffsets)

\* C9: the k-th keepalive thread has the delay floor(t / 2) for the timeout
\* t advertised by the k-th SETUP frame processed (15 for 30, 10 for 20), in
\* every state from its start on.
C9_KeepaliveDelay ==
    LET setups == SelectSeq(processed, IsSetup)
        tasks == SelectSeq(threads, IsKeepalive)
    IN /\ Len(tasks) = Len(setups)
       /\ \A k \in DOMAIN tasks :
              LET t == setups[k].keepaliveTimeout
                  delay == tasks[k].timeout_seconds
              IN /\ 2 * delay <= t
                 /\ t < 2 * delay + 2
                 /\ t = 30 => delay = 15
                 /\ t = 20 => delay = 10

\* a keepalive thread started on timeout 30 has sent a KEEPALIVE and is in
\* its delay of 15
C9_Witness ==
    \E id \in DOMAIN threads :
        /\ threads[id].activity = "keepalive"
        /\ threads[id].timeout_seconds = 15
        /\ threads[id].pc = "pause"
        /\ \E i \in DOMAIN sent : sent[i].type = "KEEPALIVE" /\ sent[i].by = id

\* C11 as claimed: no thread ever calls its activity after stop() was
\* requested on it.
C11_NoCallAfterStop ==
    \A id \in DOMAIN threads : threads[id].late = 0

\* C11: after stop() was requested on a thread, at most one more call of
\* its activity begins (the one whose loop test had passed before the
\* request), and a thread that has ended stays ended.
C11_AtMostOneCallAfterStop ==
    /\ [](\A id \in DOMAIN threads : threads[id].late <= 1)
    /\ [][\A id \in DOMAIN threads :
              (~threads[id].running /\ threads[id].pc \in {"check", "done"})
                  => threads'[id].pc \in {threads[id].pc, "done"}]_vars

\* a stopped keepalive thread has ended after a call of its activity that
\* began when stop() had been requested
C11_Witness ==
    \E id \in DOMAIN threads :
        /\ threads[id].activity = "keepalive"
        /\ ~threads[id].running
        /\ threads[id].late = 1
        /\ threads[id].pc \in {"done", "dead"}

\* the caller thread is inside __send
CallerInSend == pc \in Range(InsideOf)

\* a keepalive thread is inside __send
KeepaliveInSend ==
    \E id \in DOMAIN threads :
        threads[id].activity = "keepalive" /\ threads[id].pc = "activity"

\* C12: the caller thread and a keepalive thread are never both inside a
\* socket send.
C12_SendsSerialized == ~(CallerInSend /\ KeepaliveInSend)

IsFeedData(f) == f.type = "FEED_DATA"

\* the handler a feed event of a kind goes to, given the handlers passed to
\* the constructor: none for a kind without handler or an unknown kind
HandlerFor(kind) ==
    {k \in ctor.handlers : KindString(k) = kind}

RECURSIVE ExpectedCalls(_)
ExpectedCalls(frames) ==
    IF frames = <<>> THEN <<>>
    ELSE LET h == HandlerFor(Head(frames).data[1])
         IN (IF h = {} THEN <<>>
             ELSE <<[handler |-> CHOOSE k \in h : TRUE,
                     event |-> Head(frames).data[2]]>>)
            \o ExpectedCalls(Tail(frames))

\* C13: the handler invocations are, in order, one per processed FEED_DATA
\* frame whose kind has a handler, each to the handler of that kind with
\* the frame's array, and none for the other frames; the receive thread
\* does not end on a frame without handler.
C13_Dispatch ==
    /\ [i \in DOMAIN calls |-> [handler |-> calls[i].handler, event |-> calls[i].event]]
           = ExpectedCalls(SelectSeq(processed, IsFeedData))
    /\ receive_thread # 0 => threads[receive_thread].pc # "dead"

\* a frame without handler was passed over and the next frame was dispatched
C13_Witness ==
    /\ Len(processed) = 2
    /\ ExpectedCalls(<<processed[1]>>) = <<>>
    /\ Len(calls) = 1
    /\ calls[1].event = processed[2].data[2]

IsAuthState(f) == f.type = "AUTH_STATE"

\* C14: the authorized flag is true exactly when an AUTH_STATE frame was
\* processed and the last one processed had state AUTHORIZED; frames of the
\* other types and the caller's open() and close() leave it alone.
C14_AuthorizedFlag ==
    LET auth == SelectSeq(processed, IsAuthState)
    IN is_authorized <=> (auth # <<>> /\ auth[Len(auth)].state = "AUTHORIZED")

\* the flag is still true after a frame of an unknown type followed the
\* AUTHORIZED frame, open() returned and close() was called
C14_Witness ==
    /\ is_authorized
    /\ Len(processed) = 2
    /\ processed[1] = AuthStateFrame("AUTHORIZED")
    /\ processed[2] = OtherFrame
    /\ openState = "returned"
    /\ closeLog # <<>>

\* the caller has left the auth wait of open()
PastWait == {"open_channel", "open_channel_send", "open_feed", "open_feed_send"}

HandshakeSent ==
    \E i \in DOMAIN sent : sent[i].type \in {"CHANNEL_REQUEST", "FEED_SUBSCRIPTION"}

AuthSent == \E i \in DOMAIN sent : sent[i].type = "AUTH"

\* C19 as claimed: when the receive thread has ended on an ERROR frame, or
\* the connection was closed, before any AUTHORIZED was processed, and the
\* caller has sent AUTH, the caller stays in the auth wait: open() neither
\* returns nor ends otherwise, the caller never gets past the wait, and
\* CHANNEL_REQUEST is never sent.
C19_StaysInWait ==
    (doomed /\ AuthSent) =>
        /\ openState \notin {"returned", "raised"}
        /\ pc \notin PastWait
        /\ ~HandshakeSent

\* C19: in such an execution open() never returns and neither
\* CHANNEL_REQUEST nor FEED_SUBSCRIPTION reaches the socket; the caller
\* leaves the auth wait, or open() ends, only on a closed connection, where
\* open() raises from its next send.
C19_NeverOpens ==
    doomed =>
        /\ openState # "returned"
        /\ ~HandshakeSent
        /\ (pc \in PastWait \/ openState = "raised") => websocket = "CLOSED"

\* an AUTHORIZED frame read before the server closed the connection was
\* processed after it: the caller left the wait and open() raised from the
\* CHANNEL_REQUEST send
C19_Witness ==
    /\ doomed
    /\ is_authorized
    /\ openState = "raised"
    /\ raised = "ConnectionClosed"
    /\ AuthSent

CloseCompleted == \E i \in DOMAIN closeLog : closeLog[i].raised = "none"

\* C18: once close() has completed, every keepalive thread that exists has
\* been asked to stop.
C18_NoKeepaliveOutlivesClose ==
    CloseCompleted =>
        \A id \in DOMAIN threads :
            threads[id].activity = "keepalive" => ~threads[id].running

Terminated(id) == threads[id].pc \in {"done", "dead"}

ReceiveEnded == receive_thread # 0 /\ Terminated(receive_thread)

CloseCalled == closeLog # <<>> \/ pc \in {"close_receive", "close_websocket"}

ClosedByServer ==
    /\ websocket = "CLOSED"
    /\ ~CloseCalled
    /\ receive_thread # 0

\* C15: after the server has closed the connection in an orderly way, and as
\* long as close() is not called, the receive thread eventually ends.
C15_ReceiveStops ==
    ClosedByServer ~> (ReceiveEnded \/ CloseCalled)

\* the frames the server has sent or will send, in order
ServerStream ==
    processed \o (IF message = NoMessage THEN <<>> ELSE <<message>>) \o inbound

\* the server's last AUTH_STATE is AUTHORIZED and it sends no ERROR
AnsweredAuthorized ==
    /\ \A i \in DOMAIN ServerStream : ServerStream[i].type # "ERROR"
    /\ \E i \in DOMAIN ServerStream :
           /\ IsAuthState(ServerStream[i])
           /\ ServerStream[i].state = "AUTHORIZED"
           /\ \A j \in DOMAIN ServerStream :
                  (j > i) => ~IsAuthState(ServerStream[j])

OpenReturned ==
    /\ openState = "returned"
    /\ \E i \in DOMAIN sent : \E j \in DOMAIN sent :
           /\ i < j
           /\ sent[i].type = "CHANNEL_REQUEST"
           /\ sent[j].type = "FEED_SUBSCRIPTION"

\* C16: when the server's last AUTH_STATE is AUTHORIZED, a running open()
\* eventually leaves the auth wait, sends CHANNEL_REQUEST and
\* FEED_SUBSCRIPTION, and returns, as long as the connection stays open.
C16_OpenReturns ==
    (openState = "running" /\ AnsweredAuthorized)
        ~> (OpenReturned \/ websocket = "CLOSED")

\* open() has returned after an UNAUTHORIZED and then an AUTHORIZED state
C16_Witness ==
    /\ OpenReturned
    /\ websocket = "OPEN"
    /\ \E i \in DOMAIN processed : \E j \in DOMAIN processed :
           /\ i < j
           /\ IsAuthState(processed[i]) /\ processed[i].state = "UNAUTHORIZED"
           /\ IsAuthState(processed[j]) /\ processed[j].state = "AUTHORIZED"

AllTerminated == \A id \in DOMAIN threads : Terminated(id)

\* C17: once close() has stopped the keepalive thread of an engine whose
\* open() has returned, every thread of the engine eventually ends, for good;
\* a thread that has ended never runs again.
C17_TasksTerminate ==
    /\ (pc = "close_receive" /\ openState = "returned") ~> []AllTerminated
    /\ [][\A id \in DOMAIN threads :
              Terminated(id) => threads'[id].pc = threads[id].pc]_vars

\* close() has returned, the keepalive thread was stopped in its delay and
\* the receive thread in its read, and both have ended
C17_Witness ==
    /\ openState = "returned"
    /\ CloseCompleted
    /\ keepalive_thread # 0
    /\ threads[keepalive_thread].pc = "done"
    /\ threads[receive_thread].pc = "done"
    /\ AllTerminated

====
